---------------------------- MODULE Spec2Model ----------------------------
(***************************************************************************)
(* The leaderboard relay of src/Server/Local Server Script.py: the accept  *)
(* loop of the main thread, one handle_client thread per registered        *)
(* connection, and the module-level state they share (clients, client_ids, *)
(* next_player_id, leaderbord).  Threads interleave between the reads and  *)
(* writes of the shared names; the clients and the network are the         *)
(* environment.                                                            *)
(***************************************************************************)
EXTENDS Integers, Sequences, FiniteSets, Bags, TLC

(***************************************************************************)
(* Program constants.                                                      *)
(***************************************************************************)
MAX_PLAYERS == 5
MAX_LEADERBOARD == 8

(***************************************************************************)
(* Bounds of the model.                                                    *)
(***************************************************************************)
Extra == 1           \* connections that arrive beyond MAX_PLAYERS
MaxMsgs == 2         \* messages the clients send in all (Spec)
MaxDrops == 1        \* client-side closes and resets in all
RaceConns == 2       \* connections that arrive in SpecRace
SerialConns == 2     \* connections that arrive in SpecSerial and SpecDistinct
SerialMsgs == 9      \* messages the clients send in all (SpecSerial, SpecDistinct)
TieMax == 2          \* pumps values 1..TieMax in SpecSerial
PumpMax == 9         \* pumps values 1..PumpMax in SpecDistinct
MaxSnaps == 3        \* chunks the server writes to the client
MaxCalls == 2        \* calls of get_leaderboard and send_update (SpecClient)
TrialCount == 2      \* trials of bart_practice and of bart
BalloonMax == 3      \* trial['maxPumps'] of every balloon
RandomGrain == 2     \* random.random() draws one of 0/RandomGrain .. (RandomGrain-1)/RandomGrain

NConn == MAX_PLAYERS + Extra
Conns == 1..NConn    \* connections, numbered in the order they arrive

(***************************************************************************)
(* Values on the wire.  A score update is a JSON object; its "pumps" member*)
(* is a JSON integer, a JSON string (a sequence of characters, of which    *)
(* the digits are 0..9) or is absent.                                      *)
(***************************************************************************)
JInt(n) == [n |-> n, s |-> <<>>, t |-> "int"]
JStr(s) == [n |-> 0, s |-> s, t |-> "str"]
JAbsent == [n |-> 0, s |-> <<>>, t |-> "absent"]
Update(i, p) == [id |-> i, pumps |-> p]
NullObj == Update(0, JAbsent)

\* what one conn.recv(1024) returns: bytes that may or may not be UTF-8,
\* text that may or may not be JSON, and the object the JSON text denotes
Bytes(o) == [json |-> TRUE, obj |-> o, utf8 |-> TRUE]
BadUtf8 == [json |-> FALSE, obj |-> NullObj, utf8 |-> FALSE]
BadJson == [json |-> FALSE, obj |-> NullObj, utf8 |-> TRUE]

\* what the server writes to a connection
NoData == [board |-> <<>>, kind |-> "none"]
FullNotice == [board |-> <<>>, kind |-> "full"]
Snapshot(b) == [board |-> b, kind |-> "board"]

VARIABLES
    clients,         \* list of registered connections (line 5)
    client_ids,      \* dict connection -> player number (line 6)
    next_player_id,  \* line 7
    leaderbord,      \* line 11
    mainpc,          \* position of the main thread in the accept loop
    mconn,           \* conn of the accept loop (0: none)
    pc,              \* position of each handle_client thread
    player_id,       \* local player_id of each handler (0: unset)
    loaded,          \* value read by next_player_id += 1, before its store
    message_obj,     \* local message_obj of each handler
    result,          \* value of the right-hand side of lines 34 and 35
    iter,            \* index of the list iterator of line 39
    target,          \* c of line 39 (0: none)
    payload,         \* json.dumps(leaderbord).encode() of line 40
    exc,             \* why the handler left its loop
    sock,            \* server-side socket of each connection
    peer,            \* client side of each connection
    backlog,         \* connections established and not yet accepted
    inbox,           \* the unread bytes of each connection: <<>> or <<bytes>>
    lastSent,        \* last bytes the server wrote to each connection it has open
    applied,         \* history: bag of the objects appended to leaderbord
    refused,         \* history: connections accepted by the else branch
    nmsgs,           \* history: messages sent by clients
    ndrops,          \* history: client-side closes and resets
    sent,            \* history: the connections each handler's broadcast loop
                     \* of line 39 has written to so far
    \* one NetworkClient of src/BART.py and the threads that use it
    running,         \* self.running
    leaderboard,     \* self.leaderboard
    csock,           \* self.sock: "open" or "closed"
    lpc,             \* position of the listen_for_updates thread
    woken,           \* the close of line 91 has interrupted the recv of line 71
    srv,             \* the server's end of the client's connection
    cinbox,          \* the unread bytes of the client's socket: <<>> or <<bytes>>
    mpc,             \* position of the thread that uses the client
    fn,              \* the function that thread is in: bart_practice or bart
    current_leaderboard, \* what get_leaderboard() last returned (line 367)
    trial,           \* trials begun in the running call of bart or bart_practice
    nPumps,          \* nPumps of the trial
    calls,           \* history: arguments of send_update in the trial
    gotAt,           \* history: snapshots decoded when get_leaderboard last returned
    decoded,         \* history: the snapshots the listener has decoded
    lastSend,        \* history: how the last sendall of line 82 ended
    nsnaps,          \* history: chunks the server has written to the client
    ncalls           \* history: calls of get_leaderboard and send_update

shared == <<clients, client_ids, next_player_id, leaderbord>>
mainv == <<mainpc, mconn>>
locals == <<player_id, loaded, message_obj, result, iter, target, payload, exc>>
net == <<sock, peer, backlog, inbox, lastSent>>
hist == <<applied, refused, nmsgs, ndrops, sent>>
server == <<shared, mainv, pc, locals, net, hist>>
client == <<running, leaderboard, csock, lpc, woken>>
cnet == <<srv, cinbox, nsnaps>>
user == <<mpc, fn, current_leaderboard, trial, nPumps>>
chist == <<calls, gotAt, decoded, lastSend, ncalls>>
cli == <<client, cnet, user, chist>>
vars == <<server, cli>>


(***************************************************************************)
(* int(x["pumps"]), the sort key of line 34.                               *)
(***************************************************************************)
IsDigits(s) == Len(s) > 0 /\ \A k \in 1..Len(s) : s[k] \in 0..9

RECURSIVE DigitsValue(_)
DigitsValue(s) ==
    IF s = <<>> THEN 0
    ELSE DigitsValue(SubSeq(s, 1, Len(s) - 1)) * 10 + s[Len(s)]

\* int(p) returns a value: p is an int, or a str of decimal digits
IntOK(p) == p.t = "int" \/ (p.t = "str" /\ IsDigits(p.s))

PyInt(p) == IF p.t = "int" THEN p.n ELSE DigitsValue(p.s)

\* the lambda of line 34 returns a value on x (else KeyError or ValueError)
KeyOK(x) == x.pumps.t # "absent" /\ IntOK(x.pumps)

Key(x) == PyInt(x.pumps)

(***************************************************************************)
(* sorted(leaderbord, key=..., reverse=True): a stable sort, larger keys   *)
(* first, equal keys in their original order.                              *)
(***************************************************************************)
\* the position at which x enters the sorted list s: behind every
\* element whose key is at least the key of x
InsertPos(s, x) ==
    IF \E k \in 1..Len(s) : Key(s[k]) < Key(x)
    THEN CHOOSE k \in 1..Len(s) :
            /\ Key(s[k]) < Key(x)
            /\ \A j \in 1..(k - 1) : Key(s[j]) >= Key(x)
    ELSE Len(s) + 1

InsertDesc(s, x) ==
    LET k == InsertPos(s, x)
    IN SubSeq(s, 1, k - 1) \o <<x>> \o SubSeq(s, k, Len(s))

\* the sort without reverse=True: smaller keys first
RECURSIVE SortedAscending(_)
SortedAscending(s) ==
    IF s = <<>> THEN <<>>
    ELSE LET r == SortedAscending(SubSeq(s, 1, Len(s) - 1))
             x == s[Len(s)]
             n == Cardinality({k \in 1..Len(r) : Key(r[k]) <= Key(x)})
         IN SubSeq(r, 1, n) \o <<x>> \o SubSeq(r, n + 1, Len(r))

\* the ascending stable sort read backwards, sorted(...)[::-1]: larger keys
\* first, equal keys in the reverse of their original order
RECURSIVE SortedReversed(_)
SortedReversed(s) ==
    IF s = <<>> THEN <<>>
    ELSE LET r == SortedReversed(SubSeq(s, 1, Len(s) - 1))
             x == s[Len(s)]
             n == Cardinality({k \in 1..Len(r) : Key(r[k]) > Key(x)})
         IN SubSeq(r, 1, n) \o <<x>> \o SubSeq(r, n + 1, Len(r))

RECURSIVE SortedDesc(_)
SortedDesc(s) ==
    IF s = <<>> THEN <<>>
    ELSE InsertDesc(SortedDesc(SubSeq(s, 1, Len(s) - 1)), s[Len(s)])

\* sorted(...) raises when the key raises on some element
SortRaises(s) == \E k \in 1..Len(s) : ~KeyOK(s[k])

\* the slice leaderbord[-MAX_LEADERBOARD:], which keeps the tail
TruncatedTail(s) ==
    SubSeq(s, IF Len(s) < MAX_LEADERBOARD THEN 1 ELSE Len(s) - MAX_LEADERBOARD + 1, Len(s))

\* leaderbord[:MAX_LEADERBOARD]
Truncated(s) == SubSeq(s, 1, IF Len(s) < MAX_LEADERBOARD THEN Len(s) ELSE MAX_LEADERBOARD)

(***************************************************************************)
(* Lists and dicts.                                                        *)
(***************************************************************************)
\* list.remove(x): the list without the first occurrence of x
ListRemove(s, x) ==
    LET k == CHOOSE k \in 1..Len(s) : s[k] = x /\ \A j \in 1..(k - 1) : s[j] # x
    IN SubSeq(s, 1, k - 1) \o SubSeq(s, k + 1, Len(s))

InList(s, x) == \E k \in 1..Len(s) : s[k] = x

\* d[k] = v
DictSet(d, k, v) == [x \in DOMAIN d \cup {k} |-> IF x = k THEN v ELSE d[x]]

\* del d[k]
DictDel(d, k) == [x \in DOMAIN d \ {k} |-> d[x]]

(***************************************************************************)
(* The state when the accept loop is first entered (lines 5-11, 68-72).    *)
(***************************************************************************)
Init ==
    /\ clients = <<>>
    /\ client_ids = <<>>
    /\ next_player_id = 1
    /\ leaderbord = <<>>
    /\ mainpc = "check"
    /\ mconn = 0
    /\ pc = [c \in Conns |-> "none"]
    /\ player_id = [c \in Conns |-> 0]
    /\ loaded = [c \in Conns |-> 0]
    /\ message_obj = [c \in Conns |-> NullObj]
    /\ result = [c \in Conns |-> <<>>]
    /\ iter = [c \in Conns |-> 0]
    /\ target = [c \in Conns |-> 0]
    /\ payload = [c \in Conns |-> NoData]
    /\ exc = [c \in Conns |-> "none"]
    /\ sock = [c \in Conns |-> "none"]
    /\ peer = [c \in Conns |-> "none"]
    /\ backlog = <<>>
    /\ inbox = [c \in Conns |-> <<>>]
    /\ lastSent = [c \in Conns |-> NoData]
    /\ applied = EmptyBag
    /\ refused = {}
    /\ nmsgs = 0
    /\ ndrops = 0
    /\ sent = [c \in Conns |-> {}]
    \* src/BART.py, lines 62-66: the client is connected, the listener started
    /\ running = TRUE
    /\ leaderboard = <<>>
    /\ csock = "open"
    /\ lpc = "test"
    /\ woken = FALSE
    /\ srv = "open"
    /\ cinbox = <<>>
    /\ mpc = "start"
    /\ fn = "none"
    /\ current_leaderboard = <<>>
    /\ trial = 0
    /\ nPumps = 0
    /\ calls = <<>>
    /\ gotAt = 0
    /\ decoded = <<>>
    /\ lastSend = "none"
    /\ nsnaps = 0
    /\ ncalls = 0

\* the main thread has not died of an exception: its daemon threads run
ServerAlive == mainpc # "crashed"

(***************************************************************************)
(* The environment: clients connect, send, close and reset.                *)
(***************************************************************************)
\* every connection that has arrived is accepted, and every handler that
\* was started has its player number
Settled ==
    /\ backlog = <<>>
    /\ \A d \in Conns : pc[d] \notin {"assign_id", "inc_load", "inc_store", "set_id"}

\* every thread of the server is blocked: the main thread in accept, each
\* handler in recv
Idle ==
    /\ mainpc \in {"accept", "accept_full", "crashed"}
    /\ backlog = <<>>
    /\ \A d \in Conns :
        \/ pc[d] \in {"none", "done"}
        \/ pc[d] = "recv" /\ inbox[d] = <<>> /\ peer[d] = "open"

\* client c connects; the connections are numbered in their order of
\* arrival.  when: what the specification lets the client wait for
Connect(c, when) ==
    /\ when
    /\ peer[c] = "none"
    /\ \A d \in 1..(c - 1) : peer[d] # "none"
    /\ peer' = [peer EXCEPT ![c] = "open"]
    /\ backlog' = Append(backlog, c)
    /\ UNCHANGED <<shared, mainv, pc, locals, sock, inbox, lastSent, hist>>
    /\ UNCHANGED cli

\* bytes that arrive behind unread bytes: the next recv returns both, which
\* is not UTF-8 if either is not, and is no JSON text otherwise
Merged(a, b) == IF a.utf8 /\ b.utf8 THEN BadJson ELSE BadUtf8

\* client c writes the bytes m; the next recv(1024) of the server returns
\* all the bytes of the connection that are unread.
\* when: what the specification lets the client wait for
ClientSend(c, m, limit, when) ==
    /\ when
    /\ peer[c] = "open"
    /\ sock[c] # "closed"
    /\ nmsgs < limit
    /\ inbox' = [inbox EXCEPT ![c] = IF @ = <<>> THEN <<m>> ELSE <<Merged(@[1], m)>>]
    /\ nmsgs' = nmsgs + 1
    /\ UNCHANGED <<shared, mainv, pc, locals, sock, peer, backlog, lastSent,
                   applied, refused, ndrops, sent>>
    /\ UNCHANGED cli

\* client c closes its socket (how = "closed") or the connection is reset
\* (how = "reset").  when: what the specification lets the client wait for
ClientDrop(c, how, when) ==
    /\ when
    /\ peer[c] = "open"
    /\ ndrops < MaxDrops
    /\ peer' = [peer EXCEPT ![c] = how]
    /\ ndrops' = ndrops + 1
    /\ UNCHANGED <<shared, mainv, pc, locals, sock, backlog, inbox, lastSent,
                   applied, refused, nmsgs, sent>>
    /\ UNCHANGED cli

(***************************************************************************)
(* socket.sendall on connection c: whether it can return, whether it can   *)
(* raise.  It raises on a socket the server has closed and on a reset      *)
(* connection; after the client's close it may do either.                  *)
(***************************************************************************)
SendCanFail(c) == sock[c] = "closed" \/ peer[c] \in {"closed", "reset"}
SendCanSucceed(c) == sock[c] # "closed" /\ peer[c] \in {"open", "closed"}
SendOutcomes(c) ==
    {ok \in BOOLEAN : IF ok THEN SendCanSucceed(c) ELSE SendCanFail(c)}

(***************************************************************************)
(* The accept loop, lines 73-82.                                           *)
(***************************************************************************)
\* line 74 with <= for <
M_CheckOffByOne ==
    /\ mainpc = "check"
    /\ mainpc' = IF Len(clients) <= MAX_PLAYERS THEN "accept" ELSE "accept_full"
    /\ UNCHANGED <<shared, mconn, pc, locals, net, hist>>
    /\ UNCHANGED cli

\* line 74 without the test: the loop always takes lines 75-77
M_CheckNoLimit ==
    /\ mainpc = "check"
    /\ mainpc' = "accept"
    /\ UNCHANGED <<shared, mconn, pc, locals, net, hist>>
    /\ UNCHANGED cli

\* line 74: if len(clients) < MAX_PLAYERS
M_Check ==
    /\ mainpc = "check"
    /\ mainpc' = IF Len(clients) < MAX_PLAYERS THEN "accept" ELSE "accept_full"
    /\ UNCHANGED <<shared, mconn, pc, locals, net, hist>>
    /\ UNCHANGED cli

\* lines 75-77: accept, clients.append(conn), start the handler thread
M_Accept ==
    /\ mainpc = "accept"
    /\ backlog # <<>>
    /\ LET c == Head(backlog) IN
        /\ backlog' = Tail(backlog)
        /\ sock' = [sock EXCEPT ![c] = "open"]
        /\ clients' = Append(clients, c)
        /\ pc' = [pc EXCEPT ![c] = "assign_id"]
    /\ mainpc' = "check"
    /\ UNCHANGED <<client_ids, next_player_id, leaderbord, mconn, locals,
                   peer, inbox, lastSent, hist>>
    /\ UNCHANGED cli

\* lines 79-80: the else branch accepts the connection it will refuse
M_AcceptFull ==
    /\ mainpc = "accept_full"
    /\ backlog # <<>>
    /\ LET c == Head(backlog) IN
        /\ backlog' = Tail(backlog)
        /\ sock' = [sock EXCEPT ![c] = "open"]
        /\ mconn' = c
        /\ refused' = refused \cup {c}
    /\ mainpc' = "reject_send"
    /\ UNCHANGED <<shared, pc, locals, peer, inbox, lastSent, applied, nmsgs, ndrops,
                   sent>>
    /\ UNCHANGED cli

\* line 81: conn.sendall(b"Server is full. Try again later."); an exception
\* it raises is caught nowhere and ends the main thread
M_RejectSend ==
    /\ mainpc = "reject_send"
    /\ \E ok \in SendOutcomes(mconn) :
        IF ok
        THEN /\ lastSent' = [lastSent EXCEPT ![mconn] = FullNotice]
             /\ mainpc' = "reject_close"
             /\ mconn' = mconn
        ELSE /\ lastSent' = lastSent
             /\ mainpc' = "crashed"
             /\ mconn' = 0
    /\ UNCHANGED <<shared, pc, locals, sock, peer, backlog, inbox, hist>>
    /\ UNCHANGED cli

\* line 82: conn.close()
M_RejectClose ==
    /\ mainpc = "reject_close"
    /\ sock' = [sock EXCEPT ![mconn] = "closed"]
    /\ mconn' = 0
    /\ mainpc' = "check"
    /\ UNCHANGED <<shared, pc, locals, peer, backlog, inbox, lastSent, hist>>
    /\ UNCHANGED cli

(***************************************************************************)
(* handle_client(conn, addr), lines 13-51, for the connection c.  A step   *)
(* ends at a read or write of a shared name or of a socket.  A local name  *)
(* is put back to its initial value when its value can no longer be read.  *)
(***************************************************************************)
\* the handler leaves the while loop for the finally block: e is "eof" for
\* the break of line 28 and names the exception otherwise
Leave(c, e) ==
    /\ pc' = [pc EXCEPT ![c] = "close"]
    /\ exc' = [exc EXCEPT ![c] = e]
    /\ message_obj' = [message_obj EXCEPT ![c] = NullObj]
    /\ result' = [result EXCEPT ![c] = <<>>]
    /\ iter' = [iter EXCEPT ![c] = 0]
    /\ payload' = [payload EXCEPT ![c] = NoData]

\* line 17: player_id = next_player_id
H_AssignId(c) ==
    /\ pc[c] = "assign_id"
    /\ ServerAlive
    /\ player_id' = [player_id EXCEPT ![c] = next_player_id]
    /\ pc' = [pc EXCEPT ![c] = "inc_load"]
    /\ UNCHANGED <<shared, mainv, loaded, message_obj, result, iter, target,
                   payload, exc, net, hist>>
    /\ UNCHANGED cli

\* line 18, the read of next_player_id += 1
H_IncLoad(c) ==
    /\ pc[c] = "inc_load"
    /\ ServerAlive
    /\ loaded' = [loaded EXCEPT ![c] = next_player_id]
    /\ pc' = [pc EXCEPT ![c] = "inc_store"]
    /\ UNCHANGED <<shared, mainv, player_id, message_obj, result, iter, target,
                   payload, exc, net, hist>>
    /\ UNCHANGED cli

\* line 18, the write of next_player_id += 1
H_IncStore(c) ==
    /\ pc[c] = "inc_store"
    /\ ServerAlive
    /\ next_player_id' = loaded[c] + 1
    /\ loaded' = [loaded EXCEPT ![c] = 0]
    /\ pc' = [pc EXCEPT ![c] = "set_id"]
    /\ UNCHANGED <<clients, client_ids, leaderbord, mainv, player_id, message_obj,
                   result, iter, target, payload, exc, net, hist>>
    /\ UNCHANGED cli

\* line 19: client_ids[conn] = player_id
H_SetId(c) ==
    /\ pc[c] = "set_id"
    /\ ServerAlive
    /\ client_ids' = DictSet(client_ids, c, player_id[c])
    /\ pc' = [pc EXCEPT ![c] = "recv"]
    /\ UNCHANGED <<clients, next_player_id, leaderbord, mainv, locals, net, hist>>
    /\ UNCHANGED cli

\* lines 26-32: data = conn.recv(1024), the test of line 27, and
\* json.loads(data.decode())
H_Recv(c) ==
    /\ pc[c] = "recv"
    /\ ServerAlive
    /\ IF peer[c] = "reset"
       THEN \* recv raises ConnectionResetError: except Exception, line 44
            /\ Leave(c, "recv")
            /\ UNCHANGED <<inbox, target>>
       ELSE IF inbox[c] # <<>>
       THEN LET data == Head(inbox[c]) IN
            /\ inbox' = [inbox EXCEPT ![c] = Tail(@)]
            /\ IF ~data.utf8
               THEN \* data.decode() raises UnicodeDecodeError: line 44
                    /\ Leave(c, "decode")
                    /\ UNCHANGED target
               ELSE IF ~data.json
               THEN \* json.loads raises JSONDecodeError: line 41, loop again
                    UNCHANGED <<pc, locals>>
               ELSE /\ message_obj' = [message_obj EXCEPT ![c] = data.obj]
                    /\ pc' = [pc EXCEPT ![c] = "append"]
                    /\ UNCHANGED <<player_id, loaded, result, iter, target,
                                   payload, exc>>
       ELSE \* recv returns b"" once the client has closed: break, line 28
            /\ peer[c] = "closed"
            /\ Leave(c, "eof")
            /\ UNCHANGED <<inbox, target>>
    /\ UNCHANGED <<shared, mainv, player_id, loaded, sock, peer, backlog,
                   lastSent, hist>>
    /\ UNCHANGED cli

\* line 33: leaderbord.append(message_obj)
\* an update that replaces the entry of the same id, where there is one
H_AppendReplaces(c) ==
    /\ pc[c] = "append"
    /\ ServerAlive
    /\ LET same == {k \in 1..Len(leaderbord) : leaderbord[k].id = message_obj[c].id}
       IN leaderbord' = IF same = {} THEN Append(leaderbord, message_obj[c])
                        ELSE [k \in 1..Len(leaderbord) |->
                                 IF k \in same THEN message_obj[c] ELSE leaderbord[k]]
    /\ applied' = applied (+) SetToBag({message_obj[c]})
    /\ pc' = [pc EXCEPT ![c] = "sort"]
    /\ UNCHANGED <<clients, client_ids, next_player_id, mainv, locals, net,
                   refused, nmsgs, ndrops, sent>>
    /\ UNCHANGED cli

H_Append(c) ==
    /\ pc[c] = "append"
    /\ ServerAlive
    /\ leaderbord' = Append(leaderbord, message_obj[c])
    /\ applied' = applied (+) SetToBag({message_obj[c]})
    /\ pc' = [pc EXCEPT ![c] = "sort"]
    /\ UNCHANGED <<clients, client_ids, next_player_id, mainv, locals, net,
                   refused, nmsgs, ndrops, sent>>
    /\ UNCHANGED cli

\* line 34, right-hand side: sorted(leaderbord, key=..., reverse=True)
H_Sort(c) ==
    /\ pc[c] = "sort"
    /\ ServerAlive
    /\ IF SortRaises(leaderbord)
       THEN \* KeyError, ValueError or TypeError of the key: line 44
            /\ Leave(c, "key")
            /\ UNCHANGED target
       ELSE /\ result' = [result EXCEPT ![c] = SortedDesc(leaderbord)]
            /\ pc' = [pc EXCEPT ![c] = "sort_store"]
            /\ UNCHANGED <<message_obj, iter, target, payload, exc>>
    /\ UNCHANGED <<shared, mainv, player_id, loaded, net, hist>>
    /\ UNCHANGED cli

\* line 34, the assignment to the global leaderbord
H_SortStore(c) ==
    /\ pc[c] = "sort_store"
    /\ ServerAlive
    /\ leaderbord' = result[c]
    /\ result' = [result EXCEPT ![c] = <<>>]
    /\ pc' = [pc EXCEPT ![c] = "trunc"]
    /\ UNCHANGED <<clients, client_ids, next_player_id, mainv, player_id, loaded,
                   message_obj, iter, target, payload, exc, net, hist>>
    /\ UNCHANGED cli

\* line 35, right-hand side: leaderbord[:MAX_LEADERBOARD]
H_Trunc(c) ==
    /\ pc[c] = "trunc"
    /\ ServerAlive
    /\ result' = [result EXCEPT ![c] = Truncated(leaderbord)]
    /\ pc' = [pc EXCEPT ![c] = "trunc_store"]
    /\ UNCHANGED <<shared, mainv, player_id, loaded, message_obj, iter, target,
                   payload, exc, net, hist>>
    /\ UNCHANGED cli

\* line 35, the assignment to the global leaderbord; line 39 then makes
\* the iterator of clients
H_TruncStore(c) ==
    /\ pc[c] = "trunc_store"
    /\ ServerAlive
    /\ leaderbord' = result[c]
    /\ result' = [result EXCEPT ![c] = <<>>]
    /\ iter' = [iter EXCEPT ![c] = 0]
    /\ pc' = [pc EXCEPT ![c] = "bcast"]
    /\ UNCHANGED <<clients, client_ids, next_player_id, mainv, player_id, loaded,
                   message_obj, target, payload, exc, net, hist>>
    /\ UNCHANGED cli

\* line 39: the iterator yields clients[iter] or ends the loop; line 40,
\* argument: json.dumps(leaderbord).encode()
H_BcastNext(c) ==
    /\ pc[c] = "bcast"
    /\ ServerAlive
    /\ IF iter[c] < Len(clients)
       THEN /\ target' = [target EXCEPT ![c] = clients[iter[c] + 1]]
            /\ iter' = [iter EXCEPT ![c] = @ + 1]
            /\ payload' = [payload EXCEPT ![c] = Snapshot(leaderbord)]
            /\ pc' = [pc EXCEPT ![c] = "send"]
            /\ UNCHANGED <<message_obj, sent>>
       ELSE /\ iter' = [iter EXCEPT ![c] = 0]
            /\ message_obj' = [message_obj EXCEPT ![c] = NullObj]
            /\ pc' = [pc EXCEPT ![c] = "recv"]
            /\ sent' = [sent EXCEPT ![c] = {}]
            /\ UNCHANGED <<target, payload>>
    /\ UNCHANGED <<shared, mainv, player_id, loaded, result, exc, net,
                   applied, refused, nmsgs, ndrops>>
    /\ UNCHANGED cli

\* line 40: c.sendall(...) on the connection target[c]; when it raises the
\* handler goes to line 44 and target keeps the connection that failed
H_Send(c) ==
    /\ pc[c] = "send"
    /\ ServerAlive
    /\ \E ok \in SendOutcomes(target[c]) :
        IF ok
        THEN /\ lastSent' = [lastSent EXCEPT ![target[c]] = payload[c]]
             /\ sent' = [sent EXCEPT ![c] = @ \cup {target[c]}]
             /\ target' = [target EXCEPT ![c] = 0]
             /\ payload' = [payload EXCEPT ![c] = NoData]
             /\ pc' = [pc EXCEPT ![c] = "bcast"]
             /\ UNCHANGED <<message_obj, result, iter, exc>>
        ELSE /\ Leave(c, "send")
             /\ UNCHANGED <<lastSent, target, sent>>
    /\ UNCHANGED <<shared, mainv, player_id, loaded, sock, peer, backlog, inbox,
                   applied, refused, nmsgs, ndrops>>
    /\ UNCHANGED cli

\* line 47: conn.close(); nothing more is written to the connection, and
\* what was last written to it is no longer kept
H_Close(c) ==
    /\ pc[c] = "close"
    /\ ServerAlive
    /\ sock' = [sock EXCEPT ![c] = "closed"]
    /\ lastSent' = [lastSent EXCEPT ![c] = NoData]
    /\ sent' = [sent EXCEPT ![c] = {}]
    /\ pc' = [pc EXCEPT ![c] = "remove"]
    /\ UNCHANGED <<shared, mainv, locals, peer, backlog, inbox,
                   applied, refused, nmsgs, ndrops>>
    /\ UNCHANGED cli

\* a cleanup that unregisters the oldest connection, clients.pop(0)
H_RemoveFirst(c) ==
    /\ pc[c] = "remove"
    /\ ServerAlive
    /\ clients' = Tail(clients)
    /\ pc' = [pc EXCEPT ![c] = "del_id"]
    /\ UNCHANGED <<client_ids, next_player_id, leaderbord, mainv, locals, net, hist>>
    /\ UNCHANGED cli

\* line 48: clients.remove(conn)
H_Remove(c) ==
    /\ pc[c] = "remove"
    /\ ServerAlive
    /\ clients' = ListRemove(clients, c)
    /\ pc' = [pc EXCEPT ![c] = "del_id"]
    /\ UNCHANGED <<client_ids, next_player_id, leaderbord, mainv, locals, net, hist>>
    /\ UNCHANGED cli

\* line 51: del client_ids[conn]; the thread ends
H_DelId(c) ==
    /\ pc[c] = "del_id"
    /\ ServerAlive
    /\ client_ids' = DictDel(client_ids, c)
    /\ pc' = [pc EXCEPT ![c] = "done"]
    /\ UNCHANGED <<clients, next_player_id, leaderbord, mainv, locals, net, hist>>
    /\ UNCHANGED cli

Handler(c) ==
    \/ H_AssignId(c)
    \/ H_IncLoad(c)
    \/ H_IncStore(c)
    \/ H_SetId(c)
    \/ H_Recv(c)
    \/ H_Append(c)
    \/ H_Sort(c)
    \/ H_SortStore(c)
    \/ H_Trunc(c)
    \/ H_TruncStore(c)
    \/ H_BcastNext(c)
    \/ H_Send(c)
    \/ H_Close(c)
    \/ H_Remove(c)
    \/ H_DelId(c)

Main ==
    \/ M_Check
    \/ M_Accept
    \/ M_AcceptFull
    \/ M_RejectSend
    \/ M_RejectClose

(***************************************************************************)
(* What the clients send.  The client on connection c puts c in "id".      *)
(***************************************************************************)
GoodPumps == {JInt(n) : n \in 1..TieMax} \cup {JStr(<<1, 0>>)}
\* in SpecSerial client c sends the values congruent to c modulo SerialConns
SerialMessages(c) ==
    {Bytes(Update(c, p)) : p \in {q \in GoodPumps : PyInt(q) % SerialConns = c % SerialConns}}
        \cup {Bytes(Update(c, JAbsent)), BadJson}
RaceMessages(c) ==
    {Bytes(Update(c, JInt(n))) : n \in 1..TieMax}
        \cup {Bytes(Update(c, JAbsent)), BadUtf8, BadJson}
\* in Spec client c sends its own number as pumps
OwnMessages(c) == {Bytes(Update(c, JInt(c)))}

\* the clients that send, close and reset in Spec; the others connect and
\* stay connected
Active == {c \in Conns : c >= MAX_PLAYERS}

(***************************************************************************)
(* Spec: the whole server with MAX_PLAYERS + Extra clients, which arrive   *)
(* one after the other; the clients of Active send, close and reset at any *)
(* time; every interleaving of the main thread and the handler threads.    *)
(***************************************************************************)
Next ==
    \/ \E c \in Conns : Connect(c, Settled)
    \/ \E c \in Active : \E m \in OwnMessages(c) : ClientSend(c, m, MaxMsgs, TRUE)
    \/ \E c \in Active : \E how \in {"closed", "reset"} : ClientDrop(c, how, TRUE)
    \/ Main
    \/ \E c \in Conns : Handler(c)

Spec == Init /\ [][Next]_vars

(***************************************************************************)
(* SpecRace: RaceConns clients that connect, send any message, close and   *)
(* reset at any time; every interleaving of the threads.                   *)
(***************************************************************************)
NextRace ==
    \/ \E c \in 1..RaceConns : Connect(c, TRUE)
    \/ \E c \in 1..RaceConns : \E m \in RaceMessages(c) : ClientSend(c, m, MaxMsgs, TRUE)
    \/ \E c \in 1..RaceConns : \E how \in {"closed", "reset"} : ClientDrop(c, how, TRUE)
    \/ M_Check
    \/ M_Accept
    \/ \E c \in Conns : Handler(c)

SpecRace == Init /\ [][NextRace]_vars

(***************************************************************************)
(* SpecSerial: SerialConns clients whose messages the server processes one *)
(* at a time: the clients connect, then one of them sends when the server  *)
(* is idle.  The pumps values repeat, and some messages are malformed.     *)
(***************************************************************************)
NextSerial ==
    \/ \E c \in 1..SerialConns : Connect(c, Idle /\ nmsgs = 0)
    \/ \E c \in 1..SerialConns : \E m \in SerialMessages(c) : ClientSend(c, m, SerialMsgs, Idle)
    \/ M_Check
    \/ M_Accept
    \/ \E c \in Conns : Handler(c)

SpecSerial == Init /\ [][NextSerial]_vars

(***************************************************************************)
(* SpecDistinct: as SpecSerial, with well-formed updates whose pumps       *)
(* values 1..PumpMax are pairwise distinct, and clients that close or      *)
(* reset when the server is idle.                                          *)
(***************************************************************************)
AppliedKeys == {Key(x) : x \in BagToSet(applied)}

\* client c sends the values congruent to c modulo SerialConns, each once
DistinctMessages(c) ==
    {Bytes(Update(c, JInt(n))) :
        n \in {k \in (1..PumpMax) \ AppliedKeys : k % SerialConns = c % SerialConns}}

NextDistinct ==
    \/ \E c \in 1..SerialConns : Connect(c, Idle /\ nmsgs = 0)
    \/ \E c \in 1..SerialConns :
         \E m \in DistinctMessages(c) : ClientSend(c, m, SerialMsgs, Idle)
    \/ \E c \in 1..SerialConns : \E how \in {"closed", "reset"} : ClientDrop(c, how, Idle)
    \/ M_Check
    \/ M_Accept
    \/ \E c \in Conns : Handler(c)

SpecDistinct == Init /\ [][NextDistinct]_vars

(***************************************************************************)
(* SpecTies: as SpecSerial, with well-formed updates whose pumps values, 1 *)
(* or TieMax, repeat; the clients send in turn, and each update carries in *)
(* "id" the number of messages sent before it, so that the entries of      *)
(* leaderbord tell the order in which they were received; a client may     *)
(* disconnect between two updates.                                         *)
(***************************************************************************)
TieMessage(p) == Bytes(Update(nmsgs + 1, JInt(p)))

NextTies ==
    \/ \E c \in 1..SerialConns : Connect(c, Idle /\ nmsgs = 0)
    \/ \E c \in 1..SerialConns : \E p \in {1, TieMax} :
         ClientSend(c, TieMessage(p), SerialMsgs,
                    Idle /\ nmsgs % SerialConns = c % SerialConns)
    \/ \E c \in 1..SerialConns : \E how \in {"closed", "reset"} : ClientDrop(c, how, Idle)
    \/ M_Check
    \/ M_Accept
    \/ \E c \in Conns : Handler(c)

SpecTies == Init /\ [][NextTies]_vars

(***************************************************************************)
(* NetworkClient of src/BART.py, lines 59-91: the listener thread, the     *)
(* methods, and the server's end of the connection as the environment.     *)
(***************************************************************************)
\* the recv of line 71 can return or raise
RecvReturns == woken \/ srv # "open" \/ cinbox # <<>>

\* line 69: while self.running
L_Test ==
    /\ lpc = "test"
    /\ lpc' = IF running THEN "recv" ELSE "done"
    /\ UNCHANGED <<server, running, leaderboard, csock, woken, cnet, user, chist>>

\* line 71, the call of self.sock.recv(4096): on a socket that close() has
\* closed it raises at once (lines 75-77), otherwise the thread blocks
L_Recv ==
    /\ lpc = "recv"
    /\ IF csock = "closed"
       THEN /\ running' = FALSE
            /\ lpc' = "test"
       ELSE /\ running' = running
            /\ lpc' = "wait"
    /\ UNCHANGED <<server, leaderboard, csock, woken, cnet, user, chist>>

\* a listener that skips a payload it cannot decode and goes on reading, as
\* the except json.JSONDecodeError clause of the server's handler does
L_WaitSkipsBadPayload ==
    /\ lpc = "wait"
    /\ RecvReturns
    /\ lpc' = "test"
    /\ woken' = FALSE
    /\ IF woken \/ srv = "reset"
       THEN /\ running' = FALSE
            /\ UNCHANGED <<leaderboard, cinbox, decoded>>
       ELSE IF cinbox # <<>>
       THEN LET data == Head(cinbox) IN
            /\ cinbox' = <<>>
            /\ IF data.utf8 /\ data.json
               THEN /\ leaderboard' = data.obj
                    /\ decoded' = Append(decoded, data.obj)
                    /\ running' = running
               ELSE UNCHANGED <<running, leaderboard, decoded>>
       ELSE UNCHANGED <<running, leaderboard, cinbox, decoded>>
    /\ UNCHANGED <<server, csock, srv, nsnaps, user, calls, gotAt, lastSend, ncalls>>

\* lines 71-77, the return of recv: an exception (the close of line 91
\* interrupted it, or the connection was reset), data, or b"" after the
\* server's close
L_Wait ==
    /\ lpc = "wait"
    /\ RecvReturns
    /\ lpc' = "test"
    /\ woken' = FALSE
    /\ IF woken \/ srv = "reset"
       THEN \* except Exception: self.running = False
            /\ running' = FALSE
            /\ UNCHANGED <<leaderboard, cinbox, decoded>>
       ELSE IF cinbox # <<>>
       THEN LET data == Head(cinbox) IN
            /\ cinbox' = <<>>
            /\ IF data.utf8 /\ data.json
               THEN \* line 73: self.leaderboard = json.loads(data.decode())
                    /\ leaderboard' = data.obj
                    /\ decoded' = Append(decoded, data.obj)
                    /\ running' = running
               ELSE \* decode or json.loads raises: line 77
                    /\ running' = FALSE
                    /\ UNCHANGED <<leaderboard, decoded>>
       ELSE \* if data: is false, the loop goes on
            UNCHANGED <<running, leaderboard, cinbox, decoded>>
    /\ UNCHANGED <<server, csock, srv, nsnaps, user, calls, gotAt, lastSend, ncalls>>

Listener == L_Test \/ L_Recv \/ L_Wait

\* the outcomes of self.sock.sendall (line 82): it returns ("ok"), or it
\* raises OSError on a socket that close() has closed and on a connection
\* the server has reset; after the server's close it may do either
SendallOutcomes ==
    {e \in {"ok", "OSError"} :
        IF e = "ok" THEN csock = "open" /\ srv \in {"open", "closed"}
                    ELSE csock = "closed" \/ srv \in {"closed", "reset"}}

\* an except clause for json.JSONDecodeError alone, as on line 41 of the server
CatchesJsonOnly(e) == e = "JSONDecodeError"

\* lines 83-84: except Exception catches every exception sendall raises
Catches(e) == e \in {"OSError", "JSONDecodeError"}

\* send_update(pumps), lines 79-84, called by the thread at mpc; it returns
\* to next, or the exception leaves it
send_update(pumps, next) ==
    \E e \in SendallOutcomes :
        /\ lastSend' = IF e = "ok" THEN "ok" ELSE "failed"
        /\ calls' = Append(calls, pumps)
        /\ mpc' = IF e = "ok" \/ Catches(e) THEN next ELSE "crashed"

\* get_leaderboard(), lines 86-87
get_leaderboard ==
    /\ current_leaderboard' = leaderboard
    /\ gotAt' = Len(decoded)

\* line 90 with the cache cleared as well
close_flag_clears(at) ==
    /\ mpc = at
    /\ csock = "open"
    /\ running' = FALSE
    /\ leaderboard' = <<>>
    /\ mpc' = "close_sock"
    /\ UNCHANGED <<server, csock, lpc, woken, cnet, fn, current_leaderboard,
                   trial, nPumps, chist>>

\* close(), line 90: self.running = False
close_flag(at) ==
    /\ mpc = at
    /\ csock = "open"
    /\ running' = FALSE
    /\ mpc' = "close_sock"
    /\ UNCHANGED <<server, leaderboard, csock, lpc, woken, cnet, fn,
                   current_leaderboard, trial, nPumps, chist>>

\* close(), line 91: self.sock.close(); whether this ends a recv another
\* thread is blocked in depends on the platform
close_sock(to) ==
    /\ mpc = "close_sock"
    /\ csock' = "closed"
    /\ woken' \in (IF lpc = "wait" THEN BOOLEAN ELSE {FALSE})
    /\ mpc' = to
    /\ UNCHANGED <<server, running, leaderboard, lpc, cnet, fn,
                   current_leaderboard, trial, nPumps, chist>>

(***************************************************************************)
(* A thread that calls the methods of the client in any order.             *)
(***************************************************************************)
U_GetLeaderboard ==
    /\ mpc = "start"
    /\ ncalls < MaxCalls
    /\ get_leaderboard
    /\ ncalls' = ncalls + 1
    /\ UNCHANGED <<server, client, cnet, mpc, fn, trial, nPumps, calls, decoded, lastSend>>

U_SendUpdate(pumps) ==
    /\ mpc = "start"
    /\ ncalls < MaxCalls
    /\ send_update(pumps, "start")
    /\ ncalls' = ncalls + 1
    /\ UNCHANGED <<server, client, cnet, fn, current_leaderboard, trial, nPumps,
                   gotAt, decoded>>

(***************************************************************************)
(* The server's end of the client's connection.                            *)
(***************************************************************************)
\* what the server writes: the next snapshot (line 40 of the server), or
\* text that is no JSON (line 81 of the server)
ServerChunk(kind) ==
    IF kind = "snapshot" THEN Bytes(<<Update(1, JInt(nsnaps + 1))>>) ELSE BadJson

S_Send(kind) ==
    /\ srv = "open"
    /\ csock = "open" \/ lpc = "wait"
    /\ nsnaps < MaxSnaps
    /\ cinbox' = IF cinbox = <<>> THEN <<ServerChunk(kind)>>
                                 ELSE <<Merged(cinbox[1], ServerChunk(kind))>>
    /\ nsnaps' = nsnaps + 1
    /\ UNCHANGED <<server, client, srv, user, chist>>

\* the server closes the connection, or the connection is reset
S_Drop(how) ==
    /\ srv = "open"
    /\ srv' = how
    /\ UNCHANGED <<server, client, cinbox, nsnaps, user, chist>>

(***************************************************************************)
(* SpecClient: one NetworkClient, its listener, a thread that calls        *)
(* get_leaderboard, send_update and close in any order, and the server.    *)
(***************************************************************************)
NextClient ==
    \/ Listener
    \/ U_GetLeaderboard
    \/ \E p \in {0, BalloonMax} : U_SendUpdate(p)
    \/ close_flag("start")
    \/ close_sock("start")
    \/ \E kind \in {"snapshot", "text"} : S_Send(kind)
    \/ \E how \in {"closed", "reset"} : S_Drop(how)

SpecClient == Init /\ [][NextClient]_vars

(***************************************************************************)
(* main(), bart_practice and bart of src/BART.py as far as they use the    *)
(* client: lines 796-803, 346-459 and 461-560.  The participant's key      *)
(* presses and the draws of random.random() are the environment.           *)
(***************************************************************************)
\* lines 798 and 800: the call of bart_practice, then of bart
B_Enter ==
    /\ mpc = "start"
    /\ fn' = "bart_practice"
    /\ mpc' = "instr"
    /\ UNCHANGED <<server, client, cnet, current_leaderboard, trial, nPumps, chist>>

\* lines 350-351 and 465-466: showInstruction; KEY_QUIT returns
B_Instr(quit) ==
    /\ mpc = "instr"
    /\ trial' = 0
    /\ mpc' = IF quit THEN "return" ELSE "for"
    /\ UNCHANGED <<server, client, cnet, fn, current_leaderboard, nPumps, chist>>

\* lines 356-368 and 471-480: the next trial, if any; bart polls the
\* leaderboard (line 367)
B_For ==
    /\ mpc = "for"
    /\ IF trial < TrialCount
       THEN /\ trial' = trial + 1
            /\ nPumps' = 0
            /\ calls' = <<>>
            /\ mpc' = "respond"
            /\ IF fn = "bart"
               THEN get_leaderboard
               ELSE UNCHANGED <<current_leaderboard, gotAt>>
       ELSE /\ mpc' = "return"
            /\ UNCHANGED <<trial, nPumps, calls, current_leaderboard, gotAt>>
    /\ UNCHANGED <<server, client, cnet, fn, decoded, lastSend, ncalls>>

\* lines 395-400: no response within maxWait; the trial is over
B_Timeout ==
    /\ mpc = "respond"
    /\ mpc' = "trial_end"
    /\ UNCHANGED <<server, client, cnet, fn, current_leaderboard, trial, nPumps, chist>>

\* lines 403-404: KEY_QUIT returns from the function
B_Quit ==
    /\ mpc = "respond"
    /\ mpc' = "return"
    /\ UNCHANGED <<server, client, cnet, fn, current_leaderboard, trial, nPumps, chist>>

\* lines 407-425: KEY_NEXT cashes out: net_client.send_update(nPumps)
B_CashOut ==
    /\ mpc = "respond"
    /\ send_update(nPumps, "trial_end")
    /\ UNCHANGED <<server, client, cnet, fn, current_leaderboard, trial, nPumps,
                   gotAt, decoded, ncalls>>

\* a pop test with the divisor one larger, 1.0 / (maxPumps - nPumps + 1)
PopsLate(r, d) == IF d + 1 > 0 THEN r * (d + 1) < RandomGrain ELSE r * (d + 1) > RandomGrain

\* lines 432 and 537: random.random() < 1.0 / d, for the draw r / RandomGrain
\* of random.random(), which lies in [0, 1), and a divisor d that is not 0
Pops(r, d) == IF d > 0 THEN r * d < RandomGrain ELSE r * d > RandomGrain

\* lines 428-445 and 533-547: KEY_PUMP adds a pump, then the balloon pops
\* when random.random() < 1.0 / (trial['maxPumps'] - nPumps); a divisor of 0
\* raises ZeroDivisionError
B_Pump(r) ==
    /\ mpc = "respond"
    /\ nPumps' = nPumps + 1
    /\ LET d == BalloonMax - nPumps'
       IN mpc' = IF d = 0 THEN "raised"
                 ELSE IF Pops(r, d) THEN "trial_end" ELSE "respond"
    /\ UNCHANGED <<server, client, cnet, fn, current_leaderboard, trial, chist>>

\* lines 448-450: the data of the finished trial is saved, the while loop ends
B_TrialEnd ==
    /\ mpc = "trial_end"
    /\ mpc' = "for"
    /\ UNCHANGED <<server, client, cnet, fn, current_leaderboard, trial, nPumps, chist>>

\* the function returns to main(): line 800 after bart_practice, line 803
\* after bart
B_Return ==
    /\ mpc = "return"
    /\ fn' = IF fn = "bart_practice" THEN "bart" ELSE "none"
    /\ mpc' = IF fn = "bart_practice" THEN "instr" ELSE "close"
    /\ UNCHANGED <<server, client, cnet, current_leaderboard, trial, nPumps, chist>>

(***************************************************************************)
(* SpecBart: main() from line 796 to line 803, the listener of its client, *)
(* and the server.                                                         *)
(***************************************************************************)
NextBart ==
    \/ Listener
    \/ B_Enter
    \/ \E quit \in BOOLEAN : B_Instr(quit)
    \/ B_For
    \/ B_Timeout
    \/ B_Quit
    \/ B_CashOut
    \/ \E r \in 0..(RandomGrain - 1) : B_Pump(r)
    \/ B_TrialEnd
    \/ B_Return
    \/ close_flag("close")
    \/ close_sock("end")
    \/ \E kind \in {"snapshot", "text"} : S_Send(kind)
    \/ \E how \in {"closed", "reset"} : S_Drop(how)

SpecBart == Init /\ [][NextBart]_vars

(***************************************************************************)
(* Vocabulary of the properties.                                           *)
(***************************************************************************)
Min(a, b) == IF a < b THEN a ELSE b

\* sorted by int(pumps) in non-increasing order
IsSortedDesc(s) ==
    \A i, j \in 1..Len(s) :
        i < j => KeyOK(s[i]) /\ KeyOK(s[j]) /\ Key(s[i]) >= Key(s[j])

Entries(s) == {s[k] : k \in 1..Len(s)}

\* the entries of a list with the number of times each occurs
BagOf(s) == [x \in Entries(s) |-> Cardinality({k \in 1..Len(s) : s[k] = x})]

\* a handler is between its append and the end of its truncation
MidUpdate(c) == pc[c] \in {"sort", "sort_store", "trunc", "trunc_store"}

\* a handler has completed an update and relays the leaderboard
Completed(c) == pc[c] \in {"bcast", "send"}

\* the k-th snapshot the listener decoded; the empty list before the first
LastDecoded(k) == IF k = 0 THEN <<>> ELSE decoded[k]

\* a handler has left its loop
Leaving(c) == pc[c] \in {"close", "remove", "del_id", "done"}

\* the connections the main thread has accepted
Accepted == {c \in Conns : sock[c] # "none"}

\* one update processed alone: append, sort, truncate
Recorded(board, x) == Truncated(SortedDesc(Append(board, x)))

RECURSIVE SerialResult(_)
SerialResult(order) ==
    IF order = <<>> THEN <<>>
    ELSE Recorded(SerialResult(SubSeq(order, 1, Len(order) - 1)), order[Len(order)])

\* the orders in which the updates of a bag can be taken one at a time
RECURSIVE Orders(_)
Orders(bag) ==
    IF BagToSet(bag) = {} THEN {<<>>}
    ELSE UNION {{<<x>> \o o : o \in Orders(bag (-) SetToBag({x}))} : x \in BagToSet(bag)}

(***************************************************************************)
(* C1 (SpecSerial).  After every score update that a handler processes to  *)
(* completion, updates being processed one at a time, leaderbord is sorted *)
(* by int(pumps) in non-increasing order and has at most MAX_LEADERBOARD   *)
(* entries: this holds while the handler that completed the update         *)
(* broadcasts, and while the server waits for the next message as long as  *)
(* no update has failed.                                                   *)
(***************************************************************************)
C1_SortedAndBounded ==
    (/\ \A c \in Conns : ~MidUpdate(c)
     /\ (\E c \in Conns : Completed(c)) \/ ~SortRaises(leaderbord))
        => IsSortedDesc(leaderbord) /\ Len(leaderbord) <= MAX_LEADERBOARD

\* an update has just been truncated away from a full list
\* that holds different pumps values
C1_Witness ==
    \E c \in Conns :
        /\ pc[c] = "bcast"
        /\ BagCardinality(applied) > MAX_LEADERBOARD
        /\ Len(leaderbord) = MAX_LEADERBOARD
        /\ Key(leaderbord[1]) > Key(leaderbord[MAX_LEADERBOARD])

(***************************************************************************)
(* C2 (SpecDistinct).  After n well-formed updates with pairwise distinct  *)
(* pumps, processed one at a time, leaderbord holds exactly the            *)
(* min(n, MAX_LEADERBOARD) updates with the highest pumps, in descending   *)
(* order.                                                                  *)
(***************************************************************************)
C2_HighestKept ==
    LET A == BagToSet(applied)
        n == BagCardinality(applied)
    IN  (/\ \A c \in Conns : ~MidUpdate(c)
         /\ \A x \in A : KeyOK(x) /\ CopiesIn(x, applied) = 1
         /\ \A x, y \in A : x # y => Key(x) # Key(y))
        => /\ Len(leaderbord) = Min(n, MAX_LEADERBOARD)
           /\ Entries(leaderbord) \subseteq A
           /\ \A i, j \in 1..Len(leaderbord) :
                i < j => Key(leaderbord[i]) > Key(leaderbord[j])
           /\ \A x \in A \ Entries(leaderbord) :
                \A k \in 1..Len(leaderbord) : Key(x) < Key(leaderbord[k])

\* more than MAX_LEADERBOARD distinct updates from two clients are in, and
\* the one that was dropped was not the last to arrive
C2_Witness ==
    /\ \A c \in Conns : ~MidUpdate(c) /\ pc[c] # "append"
    /\ BagCardinality(applied) > MAX_LEADERBOARD
    /\ \E i, j \in 1..Len(leaderbord) : leaderbord[i].id # leaderbord[j].id
    /\ \E c \in Conns :
        /\ pc[c] = "bcast"
        /\ message_obj[c] \in Entries(leaderbord)

(***************************************************************************)
(* C3 (SpecRace).  Whenever no handler is in the middle of an update,      *)
(* leaderbord is what the well-formed updates appended so far give when    *)
(* they are recorded one at a time in some order: no update is lost        *)
(* except by truncation.                                                   *)
(***************************************************************************)
C3_SerialOutcome ==
    ((\A c \in Conns : ~MidUpdate(c)) /\ (\A x \in BagToSet(applied) : KeyOK(x)))
        => leaderbord \in {SerialResult(o) : o \in Orders(applied)}

(***************************************************************************)
(* C4 (SpecRace).  Every leaderboard payload of well-formed entries that   *)
(* the server sends is an array of at most MAX_LEADERBOARD entries sorted  *)
(* in non-increasing order of pumps: never a list another handler has      *)
(* appended to and not yet sorted, or sorted and not yet truncated.        *)
(***************************************************************************)
C4_PayloadSortedAndBounded ==
    \A c \in Conns :
        (pc[c] = "send" /\ ~SortRaises(payload[c].board))
            => /\ IsSortedDesc(payload[c].board)
               /\ Len(payload[c].board) <= MAX_LEADERBOARD

(***************************************************************************)
(* C5 (SpecRace).  A send of the broadcast loop that fails does not keep   *)
(* the snapshot from the remaining registered connections: after a sendall *)
(* to another connection that is not the last of clients, raised or not,   *)
(* the handler goes on with the loop (and is not the one unregistered).    *)
(***************************************************************************)
C5_BroadcastGoesOn ==
    [][\A c \in Conns :
        (pc[c] = "send" /\ pc'[c] # "send" /\ target[c] # c /\ iter[c] < Len(clients))
            => pc'[c] = "bcast"]_vars

(***************************************************************************)
(* C6 (SpecRace).  Malformed messages aside, a handler leaves its loop     *)
(* (and closes and unregisters its connection) only because the read of    *)
(* its own connection returned end-of-stream or its own connection had an  *)
(* I/O error: never because of another connection's failure.               *)
(***************************************************************************)
C6_OwnFailureOnly ==
    \A c \in Conns :
        (Leaving(c) /\ exc[c] \notin {"decode", "key"})
            => \/ exc[c] \in {"eof", "recv"}
               \/ exc[c] = "send" /\ target[c] = c

(***************************************************************************)
(* C7 (SpecRace).  No handler leaves its loop because of a malformed       *)
(* message (bytes that are not UTF-8, JSON that is no well-formed score    *)
(* update), its own or another client's.                                   *)
(***************************************************************************)
C7_MalformedKeepsLoop ==
    \A c \in Conns : exc[c] \notin {"decode", "key"}

(***************************************************************************)
(* C8 (SpecSerial).  A message that cannot be processed as a score update  *)
(* leaves leaderbord as it was: no entry without an integer-convertible    *)
(* pumps is ever in the list.                                              *)
(***************************************************************************)
C8_UnprocessableDropped ==
    \A k \in 1..Len(leaderbord) : KeyOK(leaderbord[k])

(***************************************************************************)
(* C9 (Spec).  No error raised while refusing a connection ends the accept *)
(* loop.                                                                   *)
(***************************************************************************)
C9_AcceptLoopSurvives ==
    mainpc # "crashed"

(***************************************************************************)
(* C10 (Spec).  A refused connection is never in clients, never has a      *)
(* player number or a handler thread, is never the target of a broadcast   *)
(* nor sent a leaderboard, and none of its messages is ever appended to    *)
(* leaderbord; and when MAX_PLAYERS + 1 clients have been accepted and no  *)
(* connection has gone, exactly one was refused.                           *)
(***************************************************************************)
NoneGone == ndrops = 0 /\ \A c \in Conns : ~Leaving(c)

C10_RefusedStaysOut ==
    /\ \A c \in refused :
        /\ ~InList(clients, c)
        /\ c \notin DOMAIN client_ids
        /\ pc[c] = "none"
        /\ player_id[c] = 0
        /\ lastSent[c].kind # "board"
        /\ \A d \in Conns : target[d] # c
        /\ \A x \in BagToSet(applied) \cup Entries(leaderbord) : x.id # c
    /\ (Cardinality(Accepted) = MAX_PLAYERS + 1 /\ NoneGone)
            => Cardinality(refused) = 1

\* the refusal is over, the refused client has sent an update that is still
\* unread, and a registered client's update has been broadcast
C10_Witness ==
    \E c \in refused :
        /\ sock[c] = "closed"
        /\ inbox[c] # <<>>
        /\ Cardinality(Accepted) = MAX_PLAYERS + 1
        /\ NoneGone
        /\ leaderbord # <<>>
        /\ \A d \in Entries(clients) : lastSent[d] = Snapshot(leaderbord)

(***************************************************************************)
(* C11 (Spec).  A connection is refused if and only if the number of       *)
(* registered connections at the moment it is accepted is at least          *)
(* MAX_PLAYERS, and registered otherwise: the else branch accepts only when *)
(* clients is full, line 75 only when it is not.                            *)
(***************************************************************************)
C11_RefusedIffFull ==
    [][/\ (refused' # refused) => Len(clients) >= MAX_PLAYERS
       /\ (Len(clients') > Len(clients)) => Len(clients) < MAX_PLAYERS]_vars

(***************************************************************************)
(* C12 (Spec).  In every reachable state clients holds at most MAX_PLAYERS *)
(* connections.                                                            *)
(***************************************************************************)
C12_RegistryBounded ==
    Len(clients) <= MAX_PLAYERS

\* the registry is full again: a registered client has gone, its handler
\* has ended, and the connection that arrived after it is registered
C12_Witness ==
    /\ Len(clients) = MAX_PLAYERS
    /\ \E c \in Conns : pc[c] = "done"
    /\ InList(clients, NConn)
    /\ refused = {}

(***************************************************************************)
(* C13 (SpecRace).  No two connections ever get the same player id.        *)
(***************************************************************************)
C13_UniqueIds ==
    \A c, d \in Conns :
        (c # d /\ player_id[c] # 0 /\ player_id[d] # 0) => player_id[c] # player_id[d]

(***************************************************************************)
(* C14 (SpecRace).  When the broadcast loop of a handler ends, the handler *)
(* has written the snapshot to every connection that was registered for    *)
(* the whole broadcast: every connection that is registered now and was    *)
(* registered no later than the handler's own, the handler's own included. *)
(***************************************************************************)
C14_NoneSkipped ==
    [][\A c \in Conns :
        (pc[c] = "bcast" /\ pc'[c] = "recv")
            => \A d \in Entries(clients) : d <= c => d \in sent[c]]_vars

(***************************************************************************)
(* C15 (SpecRace).  Snapshots reach each connection in the order the       *)
(* server processed the updates: once every handler waits for a message,   *)
(* no connection having failed and no message having been malformed, the   *)
(* last snapshot written to each registered connection is leaderbord.      *)
(***************************************************************************)
C15_LastSnapshotIsFinal ==
    (/\ \A c \in Conns : pc[c] \in {"none", "recv"} /\ inbox[c] = <<>> /\ exc[c] = "none"
     /\ ndrops = 0
     /\ \A x \in BagToSet(applied) : KeyOK(x))
        => \A d \in Entries(clients) :
                lastSent[d].kind = "board" => lastSent[d].board = leaderbord

(***************************************************************************)
(* C16 (SpecClient).  send_update never raises to its caller, whatever the *)
(* state of the connection (server gone, socket closed by close()), and a  *)
(* call of send_update leaves self.leaderboard and self.running as they    *)
(* were.                                                                   *)
(***************************************************************************)
C16_SendUpdateReturns ==
    /\ [](mpc # "crashed")
    /\ [][Len(calls') > Len(calls) => UNCHANGED <<leaderboard, running>>]_vars

\* a send_update after close() has failed and returned, the listener has
\* ended, and the cache holds a snapshot
C16_Witness ==
    /\ lastSend = "failed"
    /\ csock = "closed"
    /\ mpc = "start"
    /\ lpc = "done"
    /\ leaderboard # <<>>

(***************************************************************************)
(* C17 (SpecClient).  self.leaderboard is the empty list until the         *)
(* listener has decoded a first snapshot and the most recently decoded     *)
(* snapshot afterwards, also after the connection has dropped or close()   *)
(* was called; get_leaderboard returns what the cache holds when called.   *)
(***************************************************************************)
C17_CacheIsLastSnapshot ==
    /\ leaderboard = LastDecoded(Len(decoded))
    /\ current_leaderboard = LastDecoded(gotAt)

\* after two snapshots, the server's close and close(), get_leaderboard has
\* returned the second snapshot
C17_Witness ==
    /\ Len(decoded) = 2
    /\ srv = "closed"
    /\ csock = "closed"
    /\ gotAt = 2
    /\ current_leaderboard = decoded[2]
    /\ lpc = "done"

(***************************************************************************)
(* C18 (SpecClient).  After close() the listener does not hang: it has     *)
(* ended, or it is not blocked in recv, or its recv can return.            *)
(***************************************************************************)
C18_ListenerNotStuck ==
    csock = "closed" => (lpc # "wait" \/ RecvReturns)

(***************************************************************************)
(* C19 (SpecClient).  When the server has closed the connection and the    *)
(* listener's recv returns the empty end-of-stream data, the listener      *)
(* sets self.running to False (and so issues no further read).             *)
(***************************************************************************)
C19_EofStopsListener ==
    [][(lpc = "wait" /\ lpc' # "wait" /\ ~woken /\ srv = "closed" /\ cinbox = <<>>)
        => ~running']_vars

(***************************************************************************)
(* C20 (SpecBart).  When a trial is over, whichever way it ended,          *)
(* send_update has been called exactly once in it, with the trial's pump   *)
(* count.                                                                  *)
(***************************************************************************)
C20_OneUpdatePerTrial ==
    mpc = "trial_end" => calls = <<nPumps>>

(***************************************************************************)
(* C21 (SpecTies).  Among entries of leaderbord with equal pumps, entries  *)
(* received earlier rank before entries received later; and when an update *)
(* arrives at a full leaderboard with the pumps of its lowest-ranked       *)
(* entry, the truncation drops the new update.                             *)
(***************************************************************************)
C21_TiesKeepArrivalOrder ==
    /\ [](\A i, j \in 1..Len(leaderbord) :
            (i < j /\ Key(leaderbord[i]) = Key(leaderbord[j]))
                => leaderbord[i].id < leaderbord[j].id)
    /\ [][\A c \in Conns :
            (/\ pc[c] = "trunc_store" /\ pc'[c] = "bcast"
             /\ Len(leaderbord) = MAX_LEADERBOARD + 1
             /\ Key(message_obj[c]) = Key(leaderbord[MAX_LEADERBOARD + 1])
             /\ \E k \in 1..Len(leaderbord) :
                    leaderbord[k] # message_obj[c] /\ Key(leaderbord[k]) = Key(message_obj[c]))
                => message_obj[c] \notin Entries(leaderbord')]_vars

\* the ninth update had the pumps of the lowest-ranked entry of the full
\* list, which also holds higher entries, and is not in the list
C21_Witness ==
    \E c \in Conns :
        /\ pc[c] = "bcast"
        /\ BagCardinality(applied) = MAX_LEADERBOARD + 1
        /\ Len(leaderbord) = MAX_LEADERBOARD
        /\ Key(message_obj[c]) = Key(leaderbord[MAX_LEADERBOARD])
        /\ Key(leaderbord[1]) > Key(leaderbord[MAX_LEADERBOARD])
        /\ message_obj[c] \notin Entries(leaderbord)

(***************************************************************************)
(* C22 (SpecSerial).  A score update adds exactly one entry and changes no *)
(* other: while every applied update has usable pumps, the entries of      *)
(* leaderbord are, with their multiplicities, among the updates applied,   *)
(* and outside an update there are as many as were applied, up to          *)
(* MAX_LEADERBOARD; the append itself adds the new entry to the multiset,  *)
(* also when an entry with its id is already present.                      *)
(***************************************************************************)
C22_UpdateOnlyAdds ==
    /\ []((\A x \in BagToSet(applied) : KeyOK(x))
            => /\ BagOf(leaderbord) \sqsubseteq applied
               /\ (\A c \in Conns : ~MidUpdate(c))
                    => Len(leaderbord) = Min(BagCardinality(applied), MAX_LEADERBOARD))
    /\ [][\A c \in Conns :
            (pc[c] = "append" /\ pc'[c] = "sort")
                => BagOf(leaderbord') = BagOf(leaderbord) (+) SetToBag({message_obj[c]})]_vars

\* a full list after a truncation, where one id holds two different entries
\* and one entry occurs twice
C22_Witness ==
    /\ \A x \in BagToSet(applied) : KeyOK(x)
    /\ \A c \in Conns : ~MidUpdate(c)
    /\ BagCardinality(applied) > MAX_LEADERBOARD
    /\ Len(leaderbord) = MAX_LEADERBOARD
    /\ \E i, j \in 1..Len(leaderbord) :
          i < j /\ leaderbord[i].id = leaderbord[j].id /\ leaderbord[i] # leaderbord[j]
    /\ \E i, j \in 1..Len(leaderbord) : i < j /\ leaderbord[i] = leaderbord[j]

(***************************************************************************)
(* C23 (SpecRace).  No handler's broadcast loop attempts a send on a       *)
(* connection that its own handler has already closed: whenever a handler  *)
(* executes the sendall of line 40, the socket it writes to is not closed. *)
(***************************************************************************)
C23_NoSendOnClosed ==
    [][\A c \in Conns :
        (pc[c] = "send" /\ pc'[c] # "send") => sock[target[c]] # "closed"]_vars

(***************************************************************************)
(* C24 (Spec).  CLOSED is terminal: once the handler of a connection has   *)
(* finished its cleanup, the connection is closed and is in neither        *)
(* clients nor client_ids, in that state and in every later one, and its   *)
(* handler takes no further step (it never reads from the connection       *)
(* again).                                                                 *)
(***************************************************************************)
C24_ClosedIsTerminal ==
    /\ [](\A c \in Conns :
            pc[c] = "done" => /\ ~InList(clients, c)
                              /\ c \notin DOMAIN client_ids
                              /\ sock[c] = "closed")
    /\ [][\A c \in Conns : pc[c] = "done" => pc'[c] = "done"]_vars

\* after a handler finished, the freed slot was taken by the last connection
\* and a snapshot was broadcast to the full registry
C24_Witness ==
    \E c \in Conns :
        /\ pc[c] = "done"
        /\ Len(clients) = MAX_PLAYERS
        /\ InList(clients, NConn)
        /\ lastSent[NConn] = Snapshot(leaderbord)
        /\ leaderbord # <<>>

(***************************************************************************)
(* C25 (SpecClient).  When the listener's recv returns a payload that is   *)
(* not valid JSON, the listener stops for good: that step sets running to  *)
(* False and leaves the cached leaderboard as it was, and from a listener  *)
(* that is outside recv with running False, running stays False, no        *)
(* further read is issued and the cached leaderboard never changes.        *)
(***************************************************************************)
C25_BadPayloadStopsListener ==
    [][/\ (/\ lpc = "wait" /\ lpc' # "wait"
           /\ ~woken /\ srv # "reset" /\ cinbox # <<>>
           /\ ~(Head(cinbox).utf8 /\ Head(cinbox).json))
             => (~running' /\ lpc' = "test" /\ leaderboard' = leaderboard)
       /\ (~running /\ lpc \in {"test", "done"})
             => (~running' /\ lpc' \in {"test", "done"} /\ leaderboard' = leaderboard)]_vars

\* with no close() and the connection up, the listener has ended after a
\* first snapshot, and a later snapshot lies unread
C25_Witness ==
    /\ lpc = "done"
    /\ ~running
    /\ mpc = "start" /\ csock = "open" /\ srv = "open"
    /\ leaderboard # <<>>
    /\ cinbox # <<>>
    /\ Head(cinbox).utf8 /\ Head(cinbox).json
    /\ Head(cinbox).obj # leaderboard

(***************************************************************************)
(* C26 (SpecBart).  In every trial the pump count stays below maxPumps and *)
(* the pop test never divides by zero: every pump leaves the divisor       *)
(* maxPumps - nPumps at 1 or more, and the pump that brings nPumps to      *)
(* maxPumps - 1 pops the balloon and ends the trial.                       *)
(***************************************************************************)
C26_PumpsBelowMax ==
    /\ [](nPumps <= BalloonMax - 1 /\ mpc # "raised")
    /\ [][(mpc = "respond" /\ nPumps' = nPumps + 1)
            => /\ BalloonMax - nPumps' >= 1
               /\ nPumps' = BalloonMax - 1 => mpc' = "trial_end"]_vars

\* the last trial of bart has ended, with no cash-out, at maxPumps - 1 pumps
C26_Witness ==
    /\ fn = "bart"
    /\ trial = TrialCount
    /\ mpc = "trial_end"
    /\ nPumps = BalloonMax - 1
    /\ calls = <<>>

=============================================================================
